---- MODULE Spec2Model ----
(***************************************************************************)
(* Rentonomic backend (src/main.py): the rental request lifecycle, the    *)
(* Stripe checkout and webhook, the message threads with their PII guard. *)
(* The tables of the database are the variables; every HTTP handler is an *)
(* action.  accept and decline read the request row, call the payment     *)
(* processor and only then write, so they are two steps of a worker.      *)
(***************************************************************************)
EXTENDS Integers, Sequences, FiniteSets, TLC

\* ------------------------------------------------------------------ bounds
MaxRequests == 2
MaxSessions == 2
MaxDeliveries == 2
MaxMessages == 2

\* ------------------------------------------------------------------ users
Admin == "admin"
Lister == "lister"
Renters == {"renter"}
Users == Renters \cup {Lister, Admin}
Listings == {"L1"}
SystemSender == "system@rentonomic"

is_admin(email) == email = Admin

StripeConfigured == TRUE

\* ------------------------------------------------------------------ text
\* A message body is a sequence of one-character strings.
Digit == {"0", "1", "2", "3", "4", "5", "6", "7", "8", "9"}
Letter == {"a", "b", "c", "d", "e", "h", "i", "j", "k", "l", "m", "n", "o",
           "r", "t", "w", "x", "y", "M", "S"}
Whitespace == {" "}

Txt_ok == <<"o", "k">>
Txt_blank == <<" ">>
Txt_padded == <<" ", "o", "k">>
Txt_email == <<"j", "@", "d", "o", "e", ".", "c", "o">>
Txt_phone == <<"0", "7", "1", "2", "3", " ", "4", "5", "6", "7", "8", "9">>
Txt_dotphone == <<"0", "7", "1", "2", "3", ".", "4", "5", "6", ".", "7", "8", "9">>
Txt_url == <<"w", "w", "w", ".", "x", ".", "c", "o">>
Txt_address == <<"1", "2", " ", "M", "a", "i", "n", " ", "S", "t", "r", "e", "e", "t">>
Txt_system == <<"P", "a", "i", "d">>

\* What a client may put in payload.body.
Bodies == {Txt_ok, Txt_blank, Txt_padded, Txt_email, Txt_phone, Txt_dotphone,
           Txt_url, Txt_address}

RECURSIVE lstrip(_)
lstrip(s) == IF s # <<>> /\ Head(s) \in Whitespace THEN lstrip(Tail(s)) ELSE s

RECURSIVE rstrip(_)
rstrip(s) ==
    IF s # <<>> /\ s[Len(s)] \in Whitespace THEN rstrip(SubSeq(s, 1, Len(s) - 1)) ELSE s

strip(s) == rstrip(lstrip(s))

\* EMAIL_RE = [A-Z0-9._%+-]+@[A-Z0-9.-]+\.[A-Z]{2,}, case-insensitive, search.
EmailLocal == Letter \cup Digit \cup {".", "_", "%", "+", "-"}
EmailDomain == Letter \cup Digit \cup {".", "-"}
EMAIL_RE(s) ==
    \E at \in 2..Len(s) : \E dot \in (at + 2)..(Len(s) - 2) :
        /\ s[at - 1] \in EmailLocal
        /\ s[at] = "@"
        /\ \A k \in (at + 1)..(dot - 1) : s[k] \in EmailDomain
        /\ s[dot] = "."
        /\ s[dot + 1] \in Letter
        /\ s[dot + 2] \in Letter

\* PHONE_RE = (\+?\d[\d\-\s\(\)]{7,}\d), search.
PhoneInner == Digit \cup Whitespace \cup {"-", "(", ")"}
PHONE_RE(s) ==
    \E i \in 1..Len(s) : \E j \in (i + 8)..Len(s) :
        /\ s[i] \in Digit
        /\ s[j] \in Digit
        /\ \A k \in (i + 1)..(j - 1) : s[k] \in PhoneInner

\* URL_RE = (https?://|www\.), case-insensitive, search.
HasSub(s, sub) ==
    \E i \in 1..(Len(s) - Len(sub) + 1) : SubSeq(s, i, i + Len(sub) - 1) = sub
URL_RE(s) ==
    \/ HasSub(s, <<"h", "t", "t", "p", ":", "/", "/">>)
    \/ HasSub(s, <<"h", "t", "t", "p", "s", ":", "/", "/">>)
    \/ HasSub(s, <<"w", "w", "w", ".">>)

contains_pii(text) == EMAIL_RE(text) \/ PHONE_RE(text) \/ URL_RE(text)

\* --------------------------------------------------------------- pricing
\* Amounts are pence.  price_per_day is the listing's price in pence: for the
\* prices of the model float(price) * days * 100 rounds to price * days.
Max(a, b) == IF a >= b THEN a ELSE b

days_of(start_date, end_date) == Max(1, (end_date - start_date) + 1)

base_total_p(price_per_day, days) == price_per_day * days

RECURSIVE Pow2Floor(_)
Pow2Floor(n) == IF n < 2 THEN 1 ELSE 2 * Pow2Floor(n \div 2)

\* int(round(base_total_p * (1.0 + PLATFORM_FEE_RATE))): the product is a
\* double, 1.1 is the double 1.1 + 0.4 * 2^-52, and round() rounds a double
\* that is exactly x.5 to the even neighbour.  The product of b and that
\* double is exactly x.5 only when b ends in 5 and the excess b * 0.4 * 2^-52
\* is at most half a unit in the last place of x.5.
final_total_p(b) ==
    LET x == (11 * b) \div 10
    IN  IF b % 10 # 5 THEN (11 * b + 5) \div 10
        ELSE IF 4 * b <= 5 * Pow2Floor(x)
             THEN (IF x % 2 = 0 THEN x ELSE x + 1)
             ELSE x + 1

\* The fee taken as a tenth of the base, not as what is left of the total.
fee_p_of_rate(b) == b \div 10

fee_p(b) == final_total_p(b) - b

\* ------------------------------------------------------------------ state
VARIABLES
    listings,          \* listings: id -> [deleted, price_per_day]
    rental_requests,   \* rental_requests rows, id = position
    message_threads,   \* message_threads rows, id = position
    messages,          \* messages rows in created_at order
    rentals,           \* rentals (the ledger written by the webhook)
    stripe_accounts,   \* stripe_accounts: email -> account id
    connect_accounts,  \* processor side: connected accounts created, per email
    acct_ready,        \* processor side: charges_enabled and details_submitted
    sessions,          \* processor side: checkout sessions opened, with metadata
    delivered,         \* processor side: succeeded events processed per session
    paid_mails,        \* notifier side: payment mails sent, per request
    inflight,          \* accept/decline handlers between their SELECT and UPDATE
    last               \* the response of the handler that returned last

vars == <<listings, rental_requests, message_threads, messages, rentals,
          stripe_accounts, connect_accounts, acct_ready, sessions, delivered, paid_mails,
          inflight, last>>

db == <<listings, rental_requests, message_threads, messages, rentals>>

Workers == DOMAIN inflight
Idle == [op |-> "idle"]
NoAccount == "none"
\* The caller of a handler that passed its lister check (not kept further).
Authorized == "authorized"
StartDates == {1, 2}
EndDates == {1}

RequestIds == 1..MaxRequests
ThreadIds == 1..MaxRequests
SessionIds == 1..MaxSessions

\* A response: the handler, the caller, the row it was about, the HTTP status,
\* what the body says, and the rows of a listing (for send_message: the body
\* the caller sent).
Resp(op, who, arg, code, detail) ==
    [op |-> op, who |-> who, arg |-> arg, code |-> code, detail |-> detail,
     rows |-> <<>>]

RespRows(op, who, arg, rows) ==
    [op |-> op, who |-> who, arg |-> arg, code |-> 200, detail |-> "ok",
     rows |-> rows]

InitTables ==
    /\ listings = [l \in Listings |-> [deleted |-> FALSE, price_per_day |-> 1000]]
    /\ rental_requests = <<>>
    /\ message_threads = <<>>
    /\ messages = <<>>
    /\ rentals = {}
    /\ stripe_accounts = [e \in {Lister} |-> NoAccount]
    /\ connect_accounts = [e \in {Lister} |-> 0]
    /\ acct_ready = FALSE
    /\ sessions = <<>>
    /\ delivered = [s \in SessionIds |-> 0]
    /\ paid_mails = [r \in RequestIds |-> [renter |-> 0, lister |-> 0]]
    /\ last = Resp("none", "none", 0, 0, "none")

Init == InitTables /\ inflight = [w \in {"w1"} |-> Idle]

\* ------------------------------------------------------------------ notifier
\* A mail fault surfacing as the handler's error.
after_alert_email_raising(code, notifier_up) == IF notifier_up THEN code ELSE 500

\* send_alert_email catches whatever the mail client raises and returns None:
\* the handler goes on to its return with the status it had.
after_alert_email(code, notifier_up) == code

\* ---------------------------------------------------------------- listings
\* SELECT ... FROM listings WHERE id=%s, without deleted_at IS NULL.
listing_available_deleted_too(ls, listing_id) == listing_id \in DOMAIN ls

\* SELECT ... FROM listings WHERE id=%s AND deleted_at IS NULL finds a row.
listing_available(ls, listing_id) ==
    listing_id \in DOMAIN ls /\ ~ls[listing_id].deleted

admin_soft_delete_listing(who, listing_id) ==
    /\ IF ~is_admin(who)
       THEN /\ last' = Resp("admin_soft_delete_listing", who, 0, 403, "Admin only")
            /\ UNCHANGED listings
       ELSE IF listing_id \notin DOMAIN listings
       THEN /\ last' = Resp("admin_soft_delete_listing", who, 0, 404, "Listing not found")
            /\ UNCHANGED listings
       ELSE /\ listings' = [listings EXCEPT ![listing_id].deleted = TRUE]
            /\ last' = Resp("admin_soft_delete_listing", who, 0, 200, "soft_deleted")
    /\ UNCHANGED <<rental_requests, message_threads, messages, rentals,
                   stripe_accounts, connect_accounts, acct_ready, sessions, delivered, paid_mails,
                   inflight>>

admin_restore_listing(who, listing_id) ==
    /\ IF ~is_admin(who)
       THEN /\ last' = Resp("admin_restore_listing", who, 0, 403, "Admin only")
            /\ UNCHANGED listings
       ELSE IF listing_id \notin DOMAIN listings
       THEN /\ last' = Resp("admin_restore_listing", who, 0, 404, "Listing not found")
            /\ UNCHANGED listings
       ELSE /\ listings' = [listings EXCEPT ![listing_id].deleted = FALSE]
            /\ last' = Resp("admin_restore_listing", who, 0, 200, "restored")
    /\ UNCHANGED <<rental_requests, message_threads, messages, rentals,
                   stripe_accounts, connect_accounts, acct_ready, sessions, delivered, paid_mails,
                   inflight>>

\* The hard delete: the rows of the listing go from every table, then the
\* listing.  Row ids are positions; the model has one listing, so no row is
\* left behind to keep its position.  The processor keeps its sessions.
without_listing(rows, listing_id) ==
    SelectSeq(rows, LAMBDA r : r.listing_id # listing_id)

messages_without_listing(msgs, threads, listing_id) ==
    SelectSeq(msgs, LAMBDA m : threads[m.thread_id].listing_id # listing_id)

admin_delete_listing(who, listing_id) ==
    /\ IF ~is_admin(who)
       THEN /\ last' = Resp("admin_delete_listing", who, 0, 403, "Admin only")
            /\ UNCHANGED <<listings, rental_requests, message_threads, messages, rentals>>
       ELSE IF listing_id \notin DOMAIN listings
       THEN /\ last' = Resp("admin_delete_listing", who, 0, 404, "Listing not found")
            /\ UNCHANGED <<listings, rental_requests, message_threads, messages, rentals>>
       ELSE /\ messages' = messages_without_listing(messages, message_threads, listing_id)
            /\ message_threads' = without_listing(message_threads, listing_id)
            /\ rental_requests' = without_listing(rental_requests, listing_id)
            /\ rentals' = {row \in rentals : row.listing_id # listing_id}
            /\ listings' = [l \in DOMAIN listings \ {listing_id} |-> listings[l]]
            /\ last' = Resp("admin_delete_listing", who, 0, 200, "deleted")
    /\ UNCHANGED <<stripe_accounts, connect_accounts, acct_ready, sessions, delivered, paid_mails,
                   inflight>>

\* update_listing with the price_per_day field: NoPrice is the field left out,
\* BadPrice a text float() refuses.
NoPrice == -1
BadPrice == -2
Prices == {0, 5, 15, 1000}

update_listing(who, listing_id, price_per_day) ==
    /\ IF ~listing_available(listings, listing_id)
       THEN /\ last' = Resp("update_listing", who, 0, 404, "Listing not found")
            /\ UNCHANGED listings
       ELSE IF who # Lister /\ ~is_admin(who)
       THEN /\ last' = Resp("update_listing", who, 0, 403, "Forbidden")
            /\ UNCHANGED listings
       ELSE IF price_per_day = BadPrice
       THEN /\ last' = Resp("update_listing", who, 0, 400, "Invalid price")
            /\ UNCHANGED listings
       ELSE IF price_per_day = NoPrice
       THEN /\ last' = Resp("update_listing", who, 0, 200, "No changes")
            /\ UNCHANGED listings
       ELSE /\ listings' = [listings EXCEPT ![listing_id].price_per_day = price_per_day]
            /\ last' = Resp("update_listing", who, 0, 200, "ok")
    /\ UNCHANGED <<rental_requests, message_threads, messages, rentals,
                   stripe_accounts, connect_accounts, acct_ready, sessions, delivered, paid_mails,
                   inflight>>

\* ------------------------------------------------------ rental requests
\* INSERT INTO message_threads without ON CONFLICT.
ensure_thread_always_inserts(threads, listing_id, renter_email, lister_email) ==
    Append(threads, [listing_id |-> listing_id, renter_email |-> renter_email,
                     lister_email |-> lister_email, is_unlocked |-> FALSE])

\* INSERT ... ON CONFLICT (...) DO UPDATE SET is_unlocked = FALSE.
ensure_thread_relocking(threads, listing_id, renter_email, lister_email) ==
    IF \E t \in 1..Len(threads) :
          /\ threads[t].listing_id = listing_id
          /\ threads[t].renter_email = renter_email
          /\ threads[t].lister_email = lister_email
    THEN [t \in 1..Len(threads) |->
             IF /\ threads[t].listing_id = listing_id
                /\ threads[t].renter_email = renter_email
                /\ threads[t].lister_email = lister_email
             THEN [threads[t] EXCEPT !.is_unlocked = FALSE]
             ELSE threads[t]]
    ELSE Append(threads, [listing_id |-> listing_id, renter_email |-> renter_email,
                          lister_email |-> lister_email, is_unlocked |-> FALSE])

ThreadOf(threads, listing_id, renter_email, lister_email) ==
    {t \in 1..Len(threads) :
        /\ threads[t].listing_id = listing_id
        /\ threads[t].renter_email = renter_email
        /\ threads[t].lister_email = lister_email}

\* INSERT ... ON CONFLICT (listing_id, renter_email, lister_email) DO NOTHING
ensure_thread(threads, listing_id, renter_email, lister_email) ==
    IF ThreadOf(threads, listing_id, renter_email, lister_email) # {}
    THEN threads
    ELSE Append(threads, [listing_id |-> listing_id, renter_email |-> renter_email,
                          lister_email |-> lister_email, is_unlocked |-> FALSE])

request_to_rent(who, listing_id, start_date, end_date, notifier_up) ==
    /\ IF end_date < start_date
       THEN /\ last' = Resp("request_to_rent", who, 0, 400, "End date must be on/after start date")
            /\ UNCHANGED <<rental_requests, message_threads>>
       ELSE IF ~listing_available(listings, listing_id)
       THEN /\ last' = Resp("request_to_rent", who, 0, 404, "Listing not found")
            /\ UNCHANGED <<rental_requests, message_threads>>
       ELSE /\ Len(rental_requests) < MaxRequests
            /\ rental_requests' = Append(rental_requests,
                   [listing_id |-> listing_id, renter_email |-> who,
                    lister_email |-> Lister, start_date |-> start_date,
                    end_date |-> end_date, status |-> "requested"])
            /\ message_threads' = ensure_thread(message_threads, listing_id, who, Lister)
            /\ last' = Resp("request_to_rent", who, Len(rental_requests) + 1,
                            after_alert_email(200, notifier_up), "ok")
    /\ UNCHANGED <<listings, messages, rentals, stripe_accounts, connect_accounts, acct_ready,
                   sessions, delivered, paid_mails, inflight>>

\* ---------------------------------------------------------- capability gate
\* require_lister_ready_for_payments returns an onboarding url when the lister
\* has no connected account (it then creates one) or the account is not ready.
\* The gate without its Account.retrieve: any stored account passes.
gate_blocks_without_retrieve(accounts, ready, lister_email) ==
    StripeConfigured /\ accounts[lister_email] = NoAccount

gate_blocks(accounts, ready, lister_email) ==
    StripeConfigured /\ (accounts[lister_email] = NoAccount \/ ~ready)

gate_accounts(accounts, lister_email) ==
    IF StripeConfigured /\ accounts[lister_email] = NoAccount
    THEN [accounts EXCEPT ![lister_email] = "acct_lister"]
    ELSE accounts

\* Account.create: one more connected account at the processor for the email.
account_created(created, lister_email) == [created EXCEPT ![lister_email] = @ + 1]

\* The gate calls Account.create when it found no stored account id.
gate_creates(created, accounts, lister_email) ==
    IF StripeConfigured /\ accounts[lister_email] = NoAccount
    THEN account_created(created, lister_email)
    ELSE created

\* The processor changes the readiness of a connected account at any time.
StripeAccountUpdate ==
    /\ stripe_accounts[Lister] # NoAccount
    /\ acct_ready' = ~acct_ready
    /\ UNCHANGED <<listings, rental_requests, message_threads, messages, rentals,
                   stripe_accounts, connect_accounts, sessions, delivered, paid_mails, inflight, last>>

\* ----------------------------------------------------------- accept / decline
set_status(requests, id, status) ==
    IF id \in 1..Len(requests) THEN [requests EXCEPT ![id].status = status] ELSE requests

\* The lister check left out.
may_decide_anyone(r, who) == TRUE

\* r["lister_email"] != current_user and not is_admin(current_user) -> 403
may_decide(r, who) == r.lister_email = who \/ is_admin(who)

\* current_user as the handler keeps it after the lister check: the lister and
\* the admin are treated alike from there on.
Caller(r, who) == IF r.lister_email = who \/ is_admin(who) THEN Authorized ELSE who

\* accept_request up to the UPDATE: the SELECT, the lister check and the gate.
AcceptBegin(w, who, request_id) ==
    /\ inflight[w] = Idle
    /\ IF request_id \notin 1..Len(rental_requests)
       THEN /\ last' = Resp("accept_request", who, request_id, 404, "Request not found")
            /\ UNCHANGED <<inflight, stripe_accounts, connect_accounts>>
       ELSE IF ~may_decide(rental_requests[request_id], who)
       THEN /\ last' = Resp("accept_request", who, request_id, 403, "Only the lister can accept")
            /\ UNCHANGED <<inflight, stripe_accounts, connect_accounts>>
       ELSE IF gate_blocks(stripe_accounts, acct_ready, rental_requests[request_id].lister_email)
       THEN /\ last' = Resp("accept_request", who, request_id, 409, "onboarding_url")
            /\ connect_accounts' = gate_creates(connect_accounts, stripe_accounts,
                                                 rental_requests[request_id].lister_email)
            /\ stripe_accounts' = gate_accounts(stripe_accounts,
                                                rental_requests[request_id].lister_email)
            /\ UNCHANGED inflight
       ELSE /\ inflight' = [inflight EXCEPT ![w] =
                   [op |-> "accept_request", request_id |-> request_id,
                    who |-> Caller(rental_requests[request_id], who),
                    seen |-> rental_requests[request_id].status]]
            /\ UNCHANGED <<last, stripe_accounts, connect_accounts>>
    /\ UNCHANGED <<listings, rental_requests, message_threads, messages, rentals,
                   acct_ready, sessions, delivered, paid_mails>>

\* decline_request writing the status a new request has.
decline_write_reopening(requests, r) == set_status(requests, r.request_id, "requested")

\* accept_request from the UPDATE on: the status is written whatever it was.
accept_write(requests, r) == set_status(requests, r.request_id, "accepted")

AcceptCommit(w, notifier_up) ==
    /\ inflight[w] # Idle
    /\ inflight[w].op = "accept_request"
    /\ rental_requests' = accept_write(rental_requests, inflight[w])
    /\ last' = Resp("accept_request", inflight[w].who, inflight[w].request_id,
                    after_alert_email(200, notifier_up), "accepted")
    /\ inflight' = [inflight EXCEPT ![w] = Idle]
    /\ UNCHANGED <<listings, message_threads, messages, rentals, stripe_accounts, connect_accounts,
                   acct_ready, sessions, delivered, paid_mails>>

DeclineBegin(w, who, request_id) ==
    /\ inflight[w] = Idle
    /\ IF request_id \notin 1..Len(rental_requests)
       THEN /\ last' = Resp("decline_request", who, request_id, 404, "Request not found")
            /\ UNCHANGED inflight
       ELSE IF ~may_decide(rental_requests[request_id], who)
       THEN /\ last' = Resp("decline_request", who, request_id, 403, "Only the lister can decline")
            /\ UNCHANGED inflight
       ELSE /\ inflight' = [inflight EXCEPT ![w] =
                   [op |-> "decline_request", request_id |-> request_id,
                    who |-> Caller(rental_requests[request_id], who),
                    seen |-> rental_requests[request_id].status]]
            /\ UNCHANGED last
    /\ UNCHANGED <<listings, rental_requests, message_threads, messages, rentals,
                   stripe_accounts, connect_accounts, acct_ready, sessions, delivered, paid_mails>>

decline_write(requests, r) == set_status(requests, r.request_id, "declined")

DeclineCommit(w, notifier_up) ==
    /\ inflight[w] # Idle
    /\ inflight[w].op = "decline_request"
    /\ rental_requests' = decline_write(rental_requests, inflight[w])
    /\ last' = Resp("decline_request", inflight[w].who, inflight[w].request_id,
                    after_alert_email(200, notifier_up), "declined")
    /\ inflight' = [inflight EXCEPT ![w] = Idle]
    /\ UNCHANGED <<listings, message_threads, messages, rentals, stripe_accounts, connect_accounts,
                   acct_ready, sessions, delivered, paid_mails>>

\* ---------------------------------------------------------------- messaging
\* The participant check letting an administrator in.
IsParticipant_or_admin(t, who) ==
    who \in {t.renter_email, t.lister_email} \/ is_admin(who)

\* current_user not in (t["renter_email"], t["lister_email"]) -> 403
IsParticipant(t, who) == who \in {t.renter_email, t.lister_email}

BodiesOf(msgs, thread_id) ==
    LET of == SelectSeq(msgs, LAMBDA m : m.thread_id = thread_id)
    IN  [i \in 1..Len(of) |-> of[i].body]

\* list_messages returns the rows of the thread as stored; is_unlocked is read
\* and not used.
served_body(body, unlocked) == body

\* The read handlers write no table: their response is a function of the state.
list_messages(who, thread_id) ==
    IF thread_id \notin 1..Len(message_threads)
    THEN Resp("list_messages", who, thread_id, 404, "Thread not found")
    ELSE IF ~IsParticipant(message_threads[thread_id], who) /\ ~is_admin(who)
    THEN Resp("list_messages", who, thread_id, 403, "Forbidden")
    ELSE RespRows("list_messages", who, thread_id,
             [i \in 1..Len(BodiesOf(messages, thread_id)) |->
                 served_body(BodiesOf(messages, thread_id)[i],
                             message_threads[thread_id].is_unlocked)])

\* list_threads: the caller's threads with their is_unlocked column.
ThreadRows(threads, who) ==
    LET ids == SelectSeq([i \in 1..Len(threads) |-> i],
                         LAMBDA i : IsParticipant(threads[i], who))
    IN  [k \in 1..Len(ids) |-> [id |-> ids[k], is_unlocked |-> threads[ids[k]].is_unlocked]]

list_threads(who) == RespRows("list_threads", who, 0, ThreadRows(message_threads, who))

SendResp(who, thread_id, code, detail, payload_body) ==
    [Resp("send_message", who, thread_id, code, detail) EXCEPT !.rows = <<payload_body>>]

\* send_message without its PII guard.
pii_refused_never(unlocked, body) == FALSE

\* The guard ignoring the thread's is_unlocked column.
pii_refused_whatever_the_lock(unlocked, body) == contains_pii(body)

\* The PII guard of send_message: refuse when the thread is locked and the body
\* matches one of the three patterns.
pii_refused(unlocked, body) == ~unlocked /\ contains_pii(body)

send_message(who, thread_id, payload_body) ==
    /\ IF strip(payload_body) = <<>>
       THEN /\ last' = SendResp(who, thread_id, 400, "Empty message", payload_body)
            /\ UNCHANGED messages
       ELSE IF thread_id \notin 1..Len(message_threads)
       THEN /\ last' = SendResp(who, thread_id, 404, "Thread not found", payload_body)
            /\ UNCHANGED messages
       ELSE IF ~IsParticipant(message_threads[thread_id], who)
       THEN /\ last' = SendResp(who, thread_id, 403, "Not a participant", payload_body)
            /\ UNCHANGED messages
       ELSE IF pii_refused(message_threads[thread_id].is_unlocked, strip(payload_body))
       THEN /\ last' = SendResp(who, thread_id, 403, "PII", payload_body)
            /\ UNCHANGED messages
       ELSE /\ Len(messages) < MaxMessages
            /\ messages' = Append(messages,
                   [thread_id |-> thread_id, sender_email |-> who,
                    body |-> strip(payload_body), system |-> FALSE])
            /\ last' = SendResp(who, thread_id, 200, "ok", payload_body)
    /\ UNCHANGED <<listings, rental_requests, message_threads, rentals,
                   stripe_accounts, connect_accounts, acct_ready, sessions, delivered, paid_mails,
                   inflight>>

\* ------------------------------------------------------------------ checkout
session_metadata(id, r, price_per_day) ==
    LET base == base_total_p(price_per_day, days_of(r.start_date, r.end_date))
    IN  [rental_request_id |-> id, listing_id |-> r.listing_id,
         renter_email |-> r.renter_email, lister_email |-> r.lister_email,
         base_total_pence |-> base, platform_fee_pence |-> fee_p(base),
         final_total_pence |-> final_total_p(base)]

\* LEFT JOIN listings l ON l.id = rr.listing_id ... COALESCE(l.price_per_day, 0)
joined_price(ls, listing_id) ==
    IF listing_id \in DOMAIN ls THEN ls[listing_id].price_per_day ELSE 0

\* The renter check left out.
may_pay_anyone(r, who) == TRUE

\* r["renter_email"] != current_user and not is_admin(current_user) -> 403
may_pay(r, who) == r.renter_email = who \/ is_admin(who)

\* The status written before the processor is called.
after_failed_create_marked(requests, id) == set_status(requests, id, "payment_initiated")

\* Session.create raised: the handler leaves before its UPDATE.
after_failed_create(requests, id) == requests

checkout_write(requests, id) == set_status(requests, id, "payment_initiated")

stripe_checkout_start(who, request_id, stripe_up) ==
    /\ IF request_id \notin 1..Len(rental_requests)
       THEN /\ last' = Resp("stripe_checkout_start", who, request_id, 404, "Request not found")
            /\ UNCHANGED <<rental_requests, sessions, stripe_accounts, connect_accounts>>
       ELSE IF ~may_pay(rental_requests[request_id], who)
       THEN /\ last' = Resp("stripe_checkout_start", who, request_id, 403, "Only the renter can pay")
            /\ UNCHANGED <<rental_requests, sessions, stripe_accounts, connect_accounts>>
       ELSE IF gate_blocks(stripe_accounts, acct_ready, rental_requests[request_id].lister_email)
       THEN /\ last' = Resp("stripe_checkout_start", who, request_id, 409, "onboarding_url")
            /\ connect_accounts' = gate_creates(connect_accounts, stripe_accounts,
                                                 rental_requests[request_id].lister_email)
            /\ stripe_accounts' = gate_accounts(stripe_accounts,
                                                rental_requests[request_id].lister_email)
            /\ UNCHANGED <<rental_requests, sessions>>
       ELSE IF ~stripe_up
       THEN /\ last' = Resp("stripe_checkout_start", who, request_id, 500, "stripe error")
            /\ rental_requests' = after_failed_create(rental_requests, request_id)
            /\ UNCHANGED <<sessions, stripe_accounts, connect_accounts>>
       ELSE /\ Len(sessions) < MaxSessions
            /\ sessions' = Append(sessions,
                   session_metadata(request_id, rental_requests[request_id],
                       joined_price(listings, rental_requests[request_id].listing_id)))
            /\ rental_requests' = checkout_write(rental_requests, request_id)
            /\ last' = Resp("stripe_checkout_start", who, request_id, 200, "url")
            /\ UNCHANGED <<stripe_accounts, connect_accounts>>
    /\ UNCHANGED <<listings, message_threads, messages, rentals, acct_ready,
                   delivered, paid_mails, inflight>>

\* ------------------------------------------------------------------- webhook
SucceededEvents == {"checkout.session.completed", "payment_intent.succeeded"}
OtherEvents == {"checkout.session.expired", "payment_intent.payment_failed"}

mark_paid(requests, meta) == set_status(requests, meta.rental_request_id, "paid")

\* The webhook without its UPDATE of message_threads.
unlock_thread_skipped(threads, meta) == threads

unlock_thread(threads, meta) ==
    [t \in 1..Len(threads) |->
        IF t \in ThreadOf(threads, meta.listing_id, meta.renter_email, meta.lister_email)
        THEN [threads[t] EXCEPT !.is_unlocked = TRUE]
        ELSE threads[t]]

\* INSERT INTO messages ... SELECT id ... FROM message_threads WHERE <triple>:
\* one row per matching thread (the unique index leaves at most one).
RECURSIVE AppendAll(_, _, _)
AppendAll(msgs, ids, n) ==
    IF n > MaxRequests THEN msgs
    ELSE AppendAll(IF n \in ids
                   THEN Append(msgs, [thread_id |-> n, sender_email |-> SystemSender,
                                      body |-> Txt_system, system |-> TRUE])
                   ELSE msgs, ids, n + 1)

\* The webhook without its INSERT INTO messages.
system_message_skipped(msgs, threads, meta) == msgs

system_message(msgs, threads, meta) ==
    AppendAll(msgs, ThreadOf(threads, meta.listing_id, meta.renter_email,
                             meta.lister_email), 1)

\* INSERT INTO rentals ... ON CONFLICT (request_id) DO UPDATE SET the amounts.
insert_rental_overwriting(ledger, requests, meta) ==
    IF meta.rental_request_id \notin 1..Len(requests)
    THEN ledger
    ELSE {row \in ledger : row.request_id # meta.rental_request_id} \cup
         {[request_id |-> meta.rental_request_id,
           listing_id |-> requests[meta.rental_request_id].listing_id,
           renter_email |-> requests[meta.rental_request_id].renter_email,
           lister_email |-> requests[meta.rental_request_id].lister_email,
           amount_base_pence |-> meta.base_total_pence,
           amount_renter_pence |-> meta.final_total_pence,
           platform_fee_pence |-> meta.platform_fee_pence]}

\* INSERT INTO rentals ... SELECT ... FROM rental_requests WHERE id = req_id
\* ON CONFLICT (request_id) DO NOTHING
insert_rental(ledger, requests, meta) ==
    IF \/ meta.rental_request_id \notin 1..Len(requests)
       \/ \E row \in ledger : row.request_id = meta.rental_request_id
    THEN ledger
    ELSE ledger \cup
         {[request_id |-> meta.rental_request_id,
           listing_id |-> requests[meta.rental_request_id].listing_id,
           renter_email |-> requests[meta.rental_request_id].renter_email,
           lister_email |-> requests[meta.rental_request_id].lister_email,
           amount_base_pence |-> meta.base_total_pence,
           amount_renter_pence |-> meta.final_total_pence,
           platform_fee_pence |-> meta.platform_fee_pence]}

send_paid_mails(mails, meta, notifier_up) ==
    IF notifier_up
    THEN [mails EXCEPT ![meta.rental_request_id] =
             [renter |-> @.renter + 1, lister |-> @.lister + 1]]
    ELSE mails

\* The sender of a webhook request: the processor, or someone whose signature
\* does not verify.
Stripe == "stripe"
Forger == "forger"
Sender(signature_ok) == IF signature_ok THEN Stripe ELSE Forger

\* Webhook.construct_event taking every signature.
construct_event_unchecked(signature_ok) == TRUE

\* Webhook.construct_event raises unless the signature verifies.
construct_event(signature_ok) == signature_ok

\* session_id 0 is an event about an object that is none of our sessions: its
\* metadata has no rental_request_id.  secret_set is whether the deployment
\* that serves the request has STRIPE_WEBHOOK_SECRET.
stripe_webhook(event_type, session_id, signature_ok, notifier_up, secret_set) ==
    /\ IF ~(StripeConfigured /\ secret_set)
       THEN /\ last' = Resp("stripe_webhook", Sender(signature_ok), 0, 200, "skipped")
            /\ UNCHANGED <<rental_requests, message_threads, messages, rentals,
                           delivered, paid_mails>>
       ELSE IF ~construct_event(signature_ok)
       THEN /\ last' = Resp("stripe_webhook", Sender(signature_ok), 0, 400, "Invalid webhook")
            /\ UNCHANGED <<rental_requests, message_threads, messages, rentals,
                           delivered, paid_mails>>
       ELSE IF event_type \notin SucceededEvents \/ session_id = 0
       THEN /\ session_id \in 0..Len(sessions)
            /\ last' = Resp("stripe_webhook", Sender(signature_ok), session_id, 200, event_type)
            /\ UNCHANGED <<rental_requests, message_threads, messages, rentals,
                           delivered, paid_mails>>
       ELSE /\ session_id \in 1..Len(sessions)
            /\ delivered[session_id] < MaxDeliveries
            /\ Len(system_message(messages, message_threads, sessions[session_id]))
                  <= MaxMessages
            /\ rental_requests' = mark_paid(rental_requests, sessions[session_id])
            /\ message_threads' = unlock_thread(message_threads, sessions[session_id])
            /\ messages' = system_message(messages, message_threads, sessions[session_id])
            /\ rentals' = insert_rental(rentals, rental_requests, sessions[session_id])
            /\ delivered' = [delivered EXCEPT ![session_id] = @ + 1]
            /\ paid_mails' = send_paid_mails(paid_mails, sessions[session_id], notifier_up)
            /\ last' = Resp("stripe_webhook", Sender(signature_ok), session_id,
                            after_alert_email(200, notifier_up), event_type)
    /\ UNCHANGED <<listings, stripe_accounts, connect_accounts, acct_ready, sessions, inflight>>

\* ---------------------------------------------------------------------- next
Events == SucceededEvents \cup OtherEvents

\* The rental lifecycle: one accept or decline at a time is between its SELECT
\* and its UPDATE while the other handlers run.
Next ==
    \/ \E who \in Renters, l \in Listings, s \in StartDates, e \in EndDates,
          up \in BOOLEAN : request_to_rent(who, l, s, e, up)
    \/ StripeAccountUpdate
    \/ \E w \in Workers, who \in Users, r \in RequestIds : AcceptBegin(w, who, r)
    \/ \E w \in Workers, up \in BOOLEAN : AcceptCommit(w, up)
    \/ \E w \in Workers, who \in Users, r \in RequestIds : DeclineBegin(w, who, r)
    \/ \E w \in Workers, up \in BOOLEAN : DeclineCommit(w, up)
    \/ \E who \in Users, r \in RequestIds, up \in BOOLEAN :
          stripe_checkout_start(who, r, up)
    \/ \E e \in Events, s \in 0..MaxSessions, up \in BOOLEAN :
          stripe_webhook(e, s, TRUE, up, TRUE)
    \/ \E e \in Events, s \in 0..MaxSessions :
          stripe_webhook(e, s, FALSE, FALSE, TRUE)
    \/ \E ok \in BOOLEAN : stripe_webhook("checkout.session.completed", 0, ok, FALSE, FALSE)

Spec == Init /\ [][Next]_vars

\* Two accepts or declines in flight at once on the requests of one listing,
\* which the admin may soft-delete, restore and delete.
InitRace == InitTables /\ inflight = [w \in {"w1", "w2"} |-> Idle]

NextRace ==
    \/ \E who \in Renters, l \in Listings, s \in StartDates, e \in EndDates,
          up \in BOOLEAN : request_to_rent(who, l, s, e, up)
    \/ StripeAccountUpdate
    \/ \E w \in Workers, who \in Users, r \in RequestIds : AcceptBegin(w, who, r)
    \/ \E w \in Workers, up \in BOOLEAN : AcceptCommit(w, up)
    \/ \E w \in Workers, who \in Users, r \in RequestIds : DeclineBegin(w, who, r)
    \/ \E w \in Workers, up \in BOOLEAN : DeclineCommit(w, up)
    \/ \E who \in Users, l \in Listings : admin_soft_delete_listing(who, l)
    \/ \E who \in Users, l \in Listings : admin_restore_listing(who, l)
    \/ \E who \in Users, l \in Listings : admin_delete_listing(who, l)

SpecRace == InitRace /\ [][NextRace]_vars

\* The message threads of one rental request with one checkout session, every
\* body of Bodies offered to send_message.
MsgMaxRequests == 1
MsgMaxSessions == 1
MsgMaxDeliveries == 1
MsgScope ==
    /\ Len(rental_requests) <= MsgMaxRequests
    /\ Len(sessions) <= MsgMaxSessions
    /\ \A s \in SessionIds : delivered[s] <= MsgMaxDeliveries

NextMsg ==
    \/ \E who \in Renters, l \in Listings, s \in StartDates, e \in EndDates,
          up \in BOOLEAN : request_to_rent(who, l, s, e, up) /\ MsgScope'
    \/ StripeAccountUpdate
    \/ \E who \in Users, r \in RequestIds, up \in BOOLEAN :
          stripe_checkout_start(who, r, up) /\ MsgScope'
    \/ \E e \in Events, s \in 0..MaxSessions, up \in BOOLEAN :
          stripe_webhook(e, s, TRUE, up, TRUE) /\ MsgScope'
    \/ \E who \in Users, t \in ThreadIds, b \in Bodies : send_message(who, t, b)

SpecMsg == Init /\ [][NextMsg]_vars

\* The capability gate step by step, for two handlers running at once.
\* accept_request up to get_connect_account_id finding no stored account: the
\* SELECT, the lister check and the read of stripe_accounts.
AcceptGateRead(w, who, request_id) ==
    /\ inflight[w] = Idle
    /\ request_id \in 1..Len(rental_requests)
    /\ may_decide(rental_requests[request_id], who)
    /\ StripeConfigured
    /\ stripe_accounts[rental_requests[request_id].lister_email] = NoAccount
    /\ inflight' = [inflight EXCEPT ![w] =
           [op |-> "create_account", handler |-> "accept_request",
            who |-> who, request_id |-> request_id,
            lister_email |-> rental_requests[request_id].lister_email]]
    /\ UNCHANGED <<listings, rental_requests, message_threads, messages, rentals,
                   stripe_accounts, connect_accounts, acct_ready, sessions,
                   delivered, paid_mails, last>>

\* stripe_onboard: with a stored account it answers the link at once; without
\* one it goes on to Account.create.
stripe_onboard(w, who) ==
    /\ inflight[w] = Idle
    /\ StripeConfigured
    /\ IF stripe_accounts[who] # NoAccount
       THEN /\ last' = Resp("stripe_onboard", who, 0, 200, "url")
            /\ UNCHANGED inflight
       ELSE /\ inflight' = [inflight EXCEPT ![w] =
                   [op |-> "create_account", handler |-> "stripe_onboard",
                    who |-> who, request_id |-> 0, lister_email |-> who]]
            /\ UNCHANGED last
    /\ UNCHANGED <<listings, rental_requests, message_threads, messages, rentals,
                   stripe_accounts, connect_accounts, acct_ready, sessions,
                   delivered, paid_mails>>

\* Account.create, set_connect_account_id (an upsert) and the answer with the
\* onboarding link: 409 from the gate, 200 from stripe_onboard.
CreateAccount(w) ==
    /\ inflight[w] # Idle
    /\ inflight[w].op = "create_account"
    /\ connect_accounts' = account_created(connect_accounts, inflight[w].lister_email)
    /\ stripe_accounts' = [stripe_accounts EXCEPT ![inflight[w].lister_email] = "acct_lister"]
    /\ last' = IF inflight[w].handler = "stripe_onboard"
               THEN Resp("stripe_onboard", inflight[w].who, 0, 200, "url")
               ELSE Resp(inflight[w].handler, inflight[w].who, inflight[w].request_id,
                         409, "onboarding_url")
    /\ inflight' = [inflight EXCEPT ![w] = Idle]
    /\ UNCHANGED <<listings, rental_requests, message_threads, messages, rentals,
                   acct_ready, sessions, delivered, paid_mails>>

\* Two workers serving accepts and onboarding-link requests at once.  An accept
\* whose gate runs without another handler in between is AcceptBegin.
NextGate ==
    \/ \E who \in Renters, l \in Listings, s \in StartDates, e \in EndDates,
          up \in BOOLEAN : request_to_rent(who, l, s, e, up)
    \/ StripeAccountUpdate
    \/ \E w \in Workers, who \in Users, r \in RequestIds : AcceptGateRead(w, who, r)
    \/ \E w \in Workers, who \in DOMAIN stripe_accounts : stripe_onboard(w, who)
    \/ \E w \in Workers : CreateAccount(w)
    \/ \E w \in Workers, who \in Users, r \in RequestIds : AcceptBegin(w, who, r)
    \/ \E w \in Workers, up \in BOOLEAN : AcceptCommit(w, up)

SpecGate == InitRace /\ [][NextGate]_vars

\* The whole life of one rental request with one checkout session: every
\* handler that writes its status, within MsgScope.
NextOne ==
    \/ \E who \in Renters, l \in Listings, s \in StartDates, e \in EndDates,
          up \in BOOLEAN : request_to_rent(who, l, s, e, up) /\ MsgScope'
    \/ StripeAccountUpdate
    \/ \E w \in Workers, who \in Users, r \in RequestIds : AcceptBegin(w, who, r)
    \/ \E w \in Workers, up \in BOOLEAN : AcceptCommit(w, up)
    \/ \E w \in Workers, who \in Users, r \in RequestIds : DeclineBegin(w, who, r)
    \/ \E w \in Workers, up \in BOOLEAN : DeclineCommit(w, up)
    \/ \E who \in Users, r \in RequestIds, up \in BOOLEAN :
          stripe_checkout_start(who, r, up) /\ MsgScope'
    \/ \E e \in Events, s \in 0..MaxSessions, up \in BOOLEAN :
          stripe_webhook(e, s, TRUE, up, TRUE) /\ MsgScope'

SpecOne == Init /\ [][NextOne]_vars

\* One rental request of a listing whose owner changes the price and which the
\* admin may delete, with up to MaxSessions checkout sessions.
LstMaxRequests == 1
LstMaxDeliveries == 1
LstEndDates == {1, 3}
LstScope ==
    /\ Len(rental_requests) <= LstMaxRequests
    /\ \A s \in SessionIds : delivered[s] <= LstMaxDeliveries

NextLst ==
    \/ \E who \in Renters, l \in Listings, s \in StartDates, e \in LstEndDates,
          up \in BOOLEAN : request_to_rent(who, l, s, e, up) /\ LstScope'
    \/ StripeAccountUpdate
    \/ \E who \in Users, r \in RequestIds, up \in BOOLEAN :
          stripe_checkout_start(who, r, up)
    \/ \E e \in Events, s \in 0..MaxSessions, up \in BOOLEAN :
          stripe_webhook(e, s, TRUE, up, TRUE) /\ LstScope'
    \/ \E who \in Users, l \in Listings, p \in Prices \cup {NoPrice, BadPrice} :
          update_listing(who, l, p)
    \/ \E who \in Users, l \in Listings : admin_delete_listing(who, l)

SpecLst == Init /\ [][NextLst]_vars

\* -------------------------------------------------------------- properties
StatusOf(r) == rental_requests[r].status
Terminal == {"declined", "paid", "expired", "failed"}
Requests == 1..Len(rental_requests)
Threads == 1..Len(message_threads)

\* The thread of request r: the one with its listing, renter and lister.
ThreadsOfRequest(r) ==
    ThreadOf(message_threads, rental_requests[r].listing_id,
             rental_requests[r].renter_email, rental_requests[r].lister_email)

RequestsOfThread(t) == {r \in Requests : t \in ThreadsOfRequest(r)}

SystemMessages(t) ==
    Len(SelectSeq(messages, LAMBDA m : m.thread_id = t /\ m.system))

\* This step is handler op returning: it answered, and it is neither the
\* processor changing an account nor a handler going from its SELECT on.
Returns(op) ==
    /\ last'.op = op
    /\ \/ ~UNCHANGED <<last, db, stripe_accounts, sessions, delivered, paid_mails>>
       \/ \E w \in Workers : inflight[w] # Idle /\ inflight'[w] = Idle

\* C1: no step moves a rental request whose status is declined, paid, expired
\* or failed to another status.
C1_TerminalStatusIsFinal ==
    [][\A r \in Requests :
          StatusOf(r) \in Terminal => rental_requests'[r].status = StatusOf(r)]_vars

\* C2: a payment-succeeded event of a session that was processed before, for
\* a request that is still paid, changes no request, thread, message or ledger
\* row (so the thread keeps its one system message).
C2_ReplayedEventChangesNothing ==
    [][\A s \in SessionIds :
          (/\ delivered[s] >= 1
           /\ delivered'[s] > delivered[s]
           /\ StatusOf(sessions[s].rental_request_id) = "paid")
          => UNCHANGED <<rental_requests, message_threads, messages, rentals>>]_vars

\* C3: of two accepts or declines that both read the request as requested, the
\* one that writes second answers 409 with the status the first one set and
\* leaves the request as the first one left it.
C3_RaceHasOneWinner ==
    [][\A w \in Workers :
          (/\ inflight[w] # Idle
           /\ inflight'[w] = Idle
           /\ inflight[w].seen = "requested"
           /\ inflight[w].request_id \in Requests
           /\ StatusOf(inflight[w].request_id) # "requested")
          => /\ last'.code = 409
             /\ last'.detail = StatusOf(inflight[w].request_id)
             /\ rental_requests' = rental_requests]_vars

\* C4: however many copies of its payment-succeeded events were processed, a
\* thread holds at most one system message, and each party got at most one
\* payment mail, per checkout session that was paid.
PaidSessionsOfRequest(r) ==
    {s \in 1..Len(sessions) : sessions[s].rental_request_id = r /\ delivered[s] >= 1}

C4_PaidSideEffectsOncePerEvent ==
    /\ \A r \in Requests :
          /\ paid_mails[r].renter <= Cardinality(PaidSessionsOfRequest(r))
          /\ paid_mails[r].lister <= Cardinality(PaidSessionsOfRequest(r))
    /\ \A t \in Threads :
          SystemMessages(t) <=
             Cardinality(UNION {PaidSessionsOfRequest(r) : r \in RequestsOfThread(t)})

\* C5: a thread is unlocked exactly when the rental request it belongs to is
\* paid.
C5_UnlockedIffPaid ==
    \A t \in Threads : \A r \in RequestsOfThread(t) :
        message_threads[t].is_unlocked <=> (StatusOf(r) = "paid")

\* C6: list_messages on a locked thread returns no body that still holds an
\* email address, a phone number of ten digits or more, a URL or a street
\* address.
DigitsIn(s) == Cardinality({i \in 1..Len(s) : s[i] \in Digit})

PhoneShaped(s) ==
    \E i \in 1..Len(s) : \E j \in i..Len(s) :
        /\ \A k \in i..j : s[k] \in Digit \cup Whitespace \cup {"-", ".", "(", ")"}
        /\ DigitsIn(SubSeq(s, i, j)) >= 10

AddressShaped(s) ==
    \E i \in 1..Len(s) :
        /\ s[i] \in Digit
        /\ HasSub(SubSeq(s, i, Len(s)), <<" ", "S", "t", "r", "e", "e", "t">>)

ContactShaped(s) == EMAIL_RE(s) \/ PhoneShaped(s) \/ URL_RE(s) \/ AddressShaped(s)

C6_LockedReadHidesContact ==
    \A t \in Threads : \A who \in Users :
        (list_messages(who, t).code = 200 /\ ~message_threads[t].is_unlocked)
        => \A i \in 1..Len(list_messages(who, t).rows) :
              ~ContactShaped(list_messages(who, t).rows[i])

SendIsValid(who, t, body) ==
    /\ t \in Threads
    /\ IsParticipant(message_threads[t], who)
    /\ strip(body) # <<>>

SendReturns(who, t, body) ==
    /\ Returns("send_message")
    /\ last'.who = who /\ last'.arg = t /\ last'.rows = <<body>>

ReportsUnlocked(who, t) ==
    \E k \in 1..Len(list_threads(who).rows) :
        list_threads(who).rows[k] = [id |-> t, is_unlocked |-> TRUE]

C8_PaidThreadReadsUnlocked ==
    \A r \in Requests :
        StatusOf(r) = "paid"
        => /\ ThreadsOfRequest(r) # {}
           /\ \A t \in ThreadsOfRequest(r) :
                 /\ ReportsUnlocked(rental_requests[r].renter_email, t)
                 /\ ReportsUnlocked(rental_requests[r].lister_email, t)

\* The webhook has just marked a request paid and its thread reads unlocked.
C8_PaidByWebhook ==
    /\ last.op = "stripe_webhook"
    /\ last.code = 200
    /\ last.detail \in SucceededEvents
    /\ last.arg \in 1..Len(sessions)
    /\ StatusOf(sessions[last.arg].rental_request_id) = "paid"
    /\ \E t \in ThreadsOfRequest(sessions[last.arg].rental_request_id) :
          ReportsUnlocked(Lister, t)

\* C9: an accept or decline that read a status other than requested answers
\* 409 with that status and leaves the request as it is.
C9_OutOfOrderIsConflict ==
    [][\A w \in Workers :
          (/\ inflight[w] # Idle
           /\ inflight'[w] = Idle
           /\ inflight[w].seen # "requested")
          => /\ last'.code = 409
             /\ last'.detail = inflight[w].seen
             /\ rental_requests' = rental_requests]_vars

\* C10: stripe_checkout_start on a request that is not accepted fails, opens
\* no session and leaves the request as it is.
C10_CheckoutOnlyFromAccepted ==
    [][(/\ Returns("stripe_checkout_start")
        /\ last'.arg \in Requests
        /\ StatusOf(last'.arg) # "accepted")
       => /\ last'.code # 200
          /\ sessions' = sessions
          /\ rental_requests' = rental_requests]_vars

\* C11: a step that makes a rental request paid finds it payment_initiated.
C11_PaidOnlyFromPaymentInitiated ==
    [][\A r \in Requests :
          (/\ r <= Len(rental_requests')
           /\ rental_requests'[r].status = "paid"
           /\ StatusOf(r) # "paid")
          => StatusOf(r) = "payment_initiated"]_vars

\* C12: an accept by the lister or the admin while the lister has no connected
\* account, or one that is not ready, answers 409 with the onboarding url and
\* leaves the request as it is; an accept goes on to its UPDATE only when the
\* account was ready at the gate, and only that UPDATE makes a request accepted.
NotReady(lister_email) ==
    stripe_accounts[lister_email] = NoAccount \/ ~acct_ready

RequestOfSession(s) == sessions[s].rental_request_id

SessionHasRequest(s) == RequestOfSession(s) \in Requests

\* This step processes a verified payment-succeeded event of session s.
Succeeds(s) == delivered'[s] > delivered[s]

\* C14: a verified payment-succeeded event of a session whose rental request
\* no longer exists is answered 200 and changes no request, thread, message or
\* ledger row and sends no mail.
C14_EventWithoutRentalDoesNothing ==
    [][\A s \in SessionIds :
          (Succeeds(s) /\ ~SessionHasRequest(s))
          => /\ last'.code = 200
             /\ UNCHANGED <<rental_requests, message_threads, messages, rentals,
                            paid_mails>>]_vars

\* C15: a payment-succeeded event of a session that is not the last one opened
\* for its rental request changes no request, thread, message or ledger row.
Superseded(s) ==
    \E s2 \in (s + 1)..Len(sessions) : RequestOfSession(s2) = RequestOfSession(s)

C15_AbandonedSessionChangesNothing ==
    [][\A s \in SessionIds :
          (Succeeds(s) /\ Superseded(s))
          => UNCHANGED <<rental_requests, message_threads, messages, rentals>>]_vars

\* C16: a verified checkout.session.expired event of the session of a request
\* in payment_initiated makes the request expired, and a verified
\* payment_intent.payment_failed event makes it failed.
EventOutcome(event_type) ==
    IF event_type = "checkout.session.expired" THEN "expired" ELSE "failed"

C16_ExpiredAndFailedAreRecorded ==
    [][\A s \in 1..Len(sessions) :
          (/\ Returns("stripe_webhook")
           /\ last'.who = Stripe
           /\ last'.arg = s
           /\ last'.detail \in OtherEvents
           /\ SessionHasRequest(s)
           /\ StatusOf(RequestOfSession(s)) = "payment_initiated")
          => rental_requests'[RequestOfSession(s)].status = EventOutcome(last'.detail)]_vars

\* The amounts checkout put on a session, and those the webhook wrote to the
\* ledger.
Amounts(base, final, fee) == [base |-> base, final |-> final, fee |-> fee]

SessionAmounts(s) ==
    Amounts(sessions[s].base_total_pence, sessions[s].final_total_pence,
            sessions[s].platform_fee_pence)

LedgerAmounts(row) ==
    Amounts(row.amount_base_pence, row.amount_renter_pence, row.platform_fee_pence)

AddsUp(a) == a.final = a.base + a.fee /\ a.fee >= 0 /\ a.base >= 0

\* C17: the amounts of every checkout session, and of every ledger row, are a
\* base total that is not negative, a fee that is not negative and a renter
\* total that is exactly their sum.
C17_TotalIsBasePlusFee ==
    /\ \A s \in 1..Len(sessions) : AddsUp(SessionAmounts(s))
    /\ \A row \in rentals : AddsUp(LedgerAmounts(row))

\* A checkout of a free listing, then one with a fee after the price changed.
C17_FreeAndPricedCheckouts ==
    /\ Len(sessions) = 2
    /\ SessionAmounts(1) = Amounts(0, 0, 0)
    /\ SessionAmounts(2).base > 0
    /\ SessionAmounts(2).fee > 0

\* C18: the renter total of every checkout session is its base total times 1.1
\* rounded to the nearest penny, a half rounded up.
HalfUp(b) == (11 * b + 5) \div 10

C18_TotalIsRoundedHalfUp ==
    \A s \in 1..Len(sessions) : SessionAmounts(s).final = HalfUp(SessionAmounts(s).base)

\* C19: the checkout sessions of a rental request all carry the same amounts,
\* and its ledger row carries them too.
C19_PricingFixedAtFirstCheckout ==
    /\ \A s1, s2 \in 1..Len(sessions) :
          RequestOfSession(s1) = RequestOfSession(s2)
          => SessionAmounts(s1) = SessionAmounts(s2)
    /\ \A row \in rentals : \A s \in 1..Len(sessions) :
          RequestOfSession(s) = row.request_id
          => LedgerAmounts(row) = SessionAmounts(s)

\* C20: the step that processes a payment-succeeded event of a request in
\* payment_initiated makes it paid, leaves its thread in place and unlocked and
\* appends one system message to that thread, all in that one step; and a paid
\* request always has its thread, with a system message in it.
SystemRow(t) ==
    [thread_id |-> t, sender_email |-> SystemSender, body |-> Txt_system,
     system |-> TRUE]

PaidHasThreadAndMessage ==
    \A r \in Requests :
        StatusOf(r) = "paid"
        => /\ ThreadsOfRequest(r) # {}
           /\ \A t \in ThreadsOfRequest(r) : SystemMessages(t) >= 1

C20_PaidThreadAndMessageTogether ==
    [][/\ \A s \in SessionIds :
             (/\ Succeeds(s)
              /\ SessionHasRequest(s)
              /\ StatusOf(RequestOfSession(s)) = "payment_initiated")
             => /\ rental_requests'[RequestOfSession(s)].status = "paid"
                /\ ThreadsOfRequest(RequestOfSession(s)) # {}
                /\ \A t \in ThreadsOfRequest(RequestOfSession(s)) :
                      /\ message_threads'[t].is_unlocked
                      /\ messages' = Append(messages, SystemRow(t))
                /\ Len(message_threads') = Len(message_threads)
       /\ PaidHasThreadAndMessage']_vars

\* The first payment-succeeded event of a session has just been processed:
\* the request is paid and its thread holds the one system message.
C20_FirstEventProcessed ==
    /\ last.op = "stripe_webhook"
    /\ last.who = Stripe
    /\ last.arg \in 1..Len(sessions)
    /\ delivered[last.arg] = 1
    /\ SessionHasRequest(last.arg)
    /\ StatusOf(RequestOfSession(last.arg)) = "paid"
    /\ \A t \in ThreadsOfRequest(RequestOfSession(last.arg)) : SystemMessages(t) = 1

\* C21: no step removes a rental request: every row of rental_requests is still
\* there after the step, with the listing and the renter it had.
C21_RentalNeverRemoved ==
    [][\A r \in Requests :
          /\ r \in 1..Len(rental_requests')
          /\ rental_requests'[r].listing_id = rental_requests[r].listing_id
          /\ rental_requests'[r].renter_email = rental_requests[r].renter_email]_vars

\* C22: request_to_rent answers 200 only for a listing that is there and not
\* soft-deleted and for an end date on or after the start date; it then adds
\* one row with status requested and the thread of its triple exists. When it
\* answers anything else, rental_requests and message_threads are as before.
C22_CreateChecksListingAndDates ==
    [][Returns("request_to_rent")
       => IF last'.code = 200
          THEN /\ Len(rental_requests') = Len(rental_requests) + 1
               /\ last'.arg = Len(rental_requests')
               /\ LET row == rental_requests'[last'.arg]
                  IN  /\ rental_requests' = Append(rental_requests, row)
                      /\ row.listing_id \in DOMAIN listings
                      /\ ~listings[row.listing_id].deleted
                      /\ row.end_date >= row.start_date
                      /\ row.status = "requested"
                      /\ row.renter_email = last'.who
                      /\ \E t \in 1..Len(message_threads') :
                            /\ message_threads'[t].listing_id = row.listing_id
                            /\ message_threads'[t].renter_email = row.renter_email
                            /\ message_threads'[t].lister_email = row.lister_email
          ELSE UNCHANGED <<rental_requests, message_threads>>]_vars

\* A request was refused for a soft-deleted listing after an earlier one had
\* been created: the table still holds that one request and its one thread.
C22_RefusedOnDeletedListing ==
    /\ last.op = "request_to_rent"
    /\ last.code = 404
    /\ \E l \in DOMAIN listings : listings[l].deleted
    /\ Len(rental_requests) = 1
    /\ StatusOf(1) = "requested"
    /\ Len(message_threads) = 1

\* C23: message_threads never holds two rows with the same listing, renter and
\* lister.
C23_OneThreadPerTriple ==
    \A t1 \in Threads : \A t2 \in Threads :
        (/\ message_threads[t1].listing_id = message_threads[t2].listing_id
         /\ message_threads[t1].renter_email = message_threads[t2].renter_email
         /\ message_threads[t1].lister_email = message_threads[t2].lister_email)
        => t1 = t2

\* Two requests of the same renter for the same listing share one thread.
C23_RepeatRequestReusesThread ==
    /\ Len(rental_requests) = 2
    /\ rental_requests[1].listing_id = rental_requests[2].listing_id
    /\ rental_requests[1].renter_email = rental_requests[2].renter_email
    /\ rental_requests[1].lister_email = rental_requests[2].lister_email
    /\ last.op = "request_to_rent"
    /\ last.code = 200
    /\ last.arg = 2
    /\ Len(message_threads) = 1

\* C24: a handler that committed its write answers 200 with the write in place
\* whether or not its mail went out: request_to_rent with its new row, accept
\* and decline with the status they wrote, and the webhook with the request
\* paid, also when no payment mail was sent.
C24_NotifierFaultChangesNothing ==
    [][/\ (Returns("request_to_rent") /\ rental_requests' # rental_requests)
          => /\ last'.code = 200
             /\ Len(rental_requests') = Len(rental_requests) + 1
       /\ \A w \in Workers :
             (inflight[w] # Idle /\ inflight'[w] = Idle)
             => /\ last'.code = 200
                /\ inflight[w].request_id \in 1..Len(rental_requests')
                /\ rental_requests'[inflight[w].request_id].status = last'.detail
                /\ last'.detail \in {"accepted", "declined"}
       /\ \A s \in SessionIds :
             Succeeds(s)
             => /\ last'.code = 200
                /\ SessionHasRequest(s)
                /\ rental_requests'[RequestOfSession(s)].status = "paid"
                /\ \A t \in ThreadsOfRequest(RequestOfSession(s)) :
                      message_threads'[t].is_unlocked
                /\ paid_mails' = paid_mails
                   => rentals' = insert_rental(rentals, rental_requests, sessions[s])]_vars

\* The webhook processed the first payment event of a session while the
\* notifier was down: no payment mail went out, the request is paid, its thread
\* is unlocked and the answer is 200.
C24_PaidWithNotifierDown ==
    /\ last.op = "stripe_webhook"
    /\ last.code = 200
    /\ last.arg \in 1..Len(sessions)
    /\ delivered[last.arg] = 1
    /\ SessionHasRequest(last.arg)
    /\ paid_mails[RequestOfSession(last.arg)] = [renter |-> 0, lister |-> 0]
    /\ StatusOf(RequestOfSession(last.arg)) = "paid"
    /\ \A t \in ThreadsOfRequest(RequestOfSession(last.arg)) :
          message_threads[t].is_unlocked

\* C25: a rental request whose status is not requested does not have the
\* status requested after any step.
C25_NeverBackToRequested ==
    [][\A r \in Requests :
          StatusOf(r) # "requested"
          => /\ r \in 1..Len(rental_requests')
             /\ rental_requests'[r].status # "requested"]_vars

\* A request that had gone as far as a checkout session was declined: the
\* decline wrote declined over payment_initiated.
C25_DeclinedAfterCheckout ==
    /\ last.op = "decline_request"
    /\ last.code = 200
    /\ last.arg \in Requests
    /\ StatusOf(last.arg) = "declined"
    /\ \E s \in 1..Len(sessions) : sessions[s].rental_request_id = last.arg

\* C26: accept_request or decline_request called for an existing request by
\* someone who is neither its lister nor an administrator answers 403 and
\* leaves rental_requests as it is; no such caller gets to the UPDATE.
C26_StrangerCannotDecide ==
    [][/\ \A r \in Requests :
             (/\ Returns("accept_request") \/ Returns("decline_request")
              /\ last'.arg = r
              /\ last'.who \in Users
              /\ last'.who # rental_requests[r].lister_email
              /\ ~is_admin(last'.who))
             => /\ last'.code = 403
                /\ rental_requests' = rental_requests
                /\ inflight' = inflight
       /\ \A w \in Workers :
             (inflight[w] # Idle /\ inflight'[w] = Idle)
             => last'.who = Authorized]_vars

\* The renter tried to accept or decline a request that had already been
\* accepted: the answer is 403 and the request is still accepted.
C26_RenterRefused ==
    /\ last.op \in {"accept_request", "decline_request"}
    /\ last.code = 403
    /\ last.arg \in Requests
    /\ last.who = rental_requests[last.arg].renter_email
    /\ StatusOf(last.arg) = "accepted"

RetrySucceeds(who, r) ==
    ENABLED (stripe_checkout_start(who, r, TRUE) /\ last'.code = 200)

C28_FailedCreateLeavesRequest ==
    [][\A who \in Users : \A r \in Requests :
          (/\ Returns("stripe_checkout_start")
           /\ last'.who = who
           /\ last'.arg = r
           /\ last'.code = 500)
          => /\ UNCHANGED <<db, sessions, stripe_accounts, delivered, paid_mails>>
             /\ RetrySucceeds(who, r)']_vars

\* Session.create failed for an accepted request: it is still accepted and no
\* session was opened.
C28_CreateFailed ==
    /\ last.op = "stripe_checkout_start"
    /\ last.code = 500
    /\ last.arg \in Requests
    /\ StatusOf(last.arg) = "accepted"
    /\ sessions = <<>>
    /\ RetrySucceeds(last.who, last.arg)

C30_BadPostAppendsNothing ==
    [][\A who \in Users : \A t \in ThreadIds : \A body \in Bodies :
          (/\ SendReturns(who, t, body)
           /\ \/ strip(body) = <<>>
              \/ t \notin Threads
              \/ who \notin {message_threads[t].renter_email,
                             message_threads[t].lister_email})
          => /\ last'.code \in {400, 403, 404}
             /\ messages' = messages]_vars

\* An administrator posted to an unlocked thread of two other users: 403, and
\* the thread holds the system message only.
C30_AdminIsNotAParticipant ==
    /\ last.op = "send_message"
    /\ last.code = 403
    /\ last.detail = "Not a participant"
    /\ last.who = Admin
    /\ last.arg \in Threads
    /\ message_threads[last.arg].is_unlocked
    /\ Len(messages) = 1

\* C31: a thread that is unlocked is still there and still unlocked after any
\* step of request_to_rent, accept, decline, checkout or the webhook.
C31_UnlockIsMonotone ==
    [][\A t \in Threads :
          message_threads[t].is_unlocked
          => /\ t \in 1..Len(message_threads')
             /\ message_threads'[t].is_unlocked]_vars

\* A second request of the same renter for the same listing was created after
\* the thread of the first one had been unlocked: the thread is still unlocked.
C31_NewRequestOnUnlockedThread ==
    /\ last.op = "request_to_rent"
    /\ last.code = 200
    /\ last.arg = 2
    /\ Len(rental_requests) = 2
    /\ StatusOf(1) = "paid"
    /\ ThreadsOfRequest(2) = ThreadsOfRequest(1)
    /\ \A t \in ThreadsOfRequest(2) : message_threads[t].is_unlocked
    /\ ThreadsOfRequest(2) # {}

\* C32: no message a user sent to a thread that is locked has a body matching
\* the email, phone or URL pattern of contains_pii.
C32_LockedThreadHoldsNoPii ==
    \A i \in 1..Len(messages) :
        (/\ ~messages[i].system
         /\ messages[i].thread_id \in Threads
         /\ ~message_threads[messages[i].thread_id].is_unlocked)
        => ~(EMAIL_RE(messages[i].body) \/ PHONE_RE(messages[i].body)
             \/ URL_RE(messages[i].body))

\* A locked thread holds a message of one of its users, and the next post to
\* it, with an email address, a phone number or a URL, was refused.
C32_PiiRefusedOnLockedThread ==
    /\ last.op = "send_message"
    /\ last.code = 403
    /\ last.detail = "PII"
    /\ last.arg \in Threads
    /\ ~message_threads[last.arg].is_unlocked
    /\ Len(messages) = 1
    /\ ~messages[1].system
    /\ messages[1].thread_id = last.arg

\* C33: rentals holds at most one row per rental request, and a webhook step
\* leaves every row that is there as it is, amounts included.
C33_LedgerRowWrittenOnce ==
    [][/\ \A row1 \in rentals' : \A row2 \in rentals' :
             row1.request_id = row2.request_id => row1 = row2
       /\ Returns("stripe_webhook") => \A row \in rentals : row \in rentals']_vars

\* Two sessions of one request carry different amounts and an event of each
\* was processed: the ledger has the one row, with the amounts of the session
\* whose event came first.
C33_SecondPaymentKeepsFirstAmounts ==
    /\ Len(sessions) = 2
    /\ RequestOfSession(1) = RequestOfSession(2)
    /\ SessionAmounts(1) # SessionAmounts(2)
    /\ delivered[1] >= 1
    /\ delivered[2] >= 1
    /\ last.op = "stripe_webhook"
    /\ last.arg = 2
    /\ Cardinality(rentals) = 1
    /\ \A row \in rentals : LedgerAmounts(row) = SessionAmounts(1)

\* C34: the processor holds at most one connected account per lister.
C34_OneAccountPerLister ==
    \A e \in DOMAIN connect_accounts : connect_accounts[e] <= 1

====
